---- MODULE Spec2Model ----
(***************************************************************************)
(* EcomSync payment server: the checkout controller, the order service,   *)
(* the Stripe service and the webhook controller, as a state machine.      *)
(* Every await of the source is one step of a request; the database is    *)
(* PostgreSQL under Prisma: single statements commit at once, the          *)
(* interactive $transaction reads committed rows, buffers its writes,      *)
(* holds a row lock from an update to its end, and rolls back on a throw.  *)
(***************************************************************************)
EXTENDS Integers, Sequences, FiniteSets, Bags, TLC

\* ------------------------------------------------------------------ bounds
MaxRequests == 2
MaxFaults == 1

\* ------------------------------------------------------- request processes
CheckoutSlots == {1, 2}
WebhookSlots == {1, 2}

\* ------------------------------------------------------------- input sets
ClientKeys == {"key_A"}
\* What uuidv4() returns, call after call: never a key seen before.
UuidPool == <<"uuid_1", "uuid_2", "uuid_3", "uuid_4", "uuid_5", "uuid_6">>
Signatures == {"", "forged", "stripe"}

NoKey == ""
Null == 0

Item(i, p, q) == [id |-> i, name |-> i, price |-> p, quantity |-> q]

ValidItemLists ==
    { <<Item("p1", 500, 2)>>, <<Item("p2", 300, 1)>>, <<Item("p1", 500, 2), Item("p2", 300, 3)>> }

InvalidItemLists ==
    { << >>, <<Item("", 500, 1)>>, <<Item("p1", 500, 0)>>, <<Item("p2", 300, 1), Item("p1", 500, -1)>> }

ItemLists == ValidItemLists \cup InvalidItemLists

EventTypes ==
    { "checkout.session.completed", "checkout.session.expired",
      "payment_intent.payment_failed", "payment_intent.succeeded" }

\* ------------------------------------------------------------------- state
VARIABLES
    orders,         \* table Order: a sequence of rows, the row's id is its index
    webhookEvents,  \* table WebhookEvent: a bag of rows [id, type]
    sessions,       \* the provider's checkout sessions, the session's id is its index
    clock,          \* the latest time new Date() returned
    co,             \* the checkout requests in flight, per slot
    wh,             \* the webhook deliveries in flight, per slot
    used,           \* what the bounds count: requests, faults, uuids
    applied         \* history: the event ids whose transaction committed an order
                    \* write, one copy per commit (a bag)

vars == <<orders, webhookEvents, sessions, clock, co, wh, used, applied>>

\* ---------------------------------------------------------- pure functions
RECURSIVE SumItems(_, _)
SumItems(items, total) ==
    IF items = << >> THEN total
    ELSE SumItems(Tail(items), total + Head(items).price * Head(items).quantity)

\* (a total that stops after the first line)
TotalOfFirstItem(items) == items[1].price * items[1].quantity

calculateOrderTotal(items) == SumItems(items, 0)

\* Step 1 of the checkout controller: the items are an array, not empty, and
\* every item has an id and a quantity >= 1.
\* (a check of the id alone)
ItemWithoutId(item) == item.id = ""

ItemInvalid(item) == item.id = "" \/ item.quantity = 0 \/ item.quantity < 1

ItemsValid(items) ==
    /\ Len(items) # 0
    /\ \A i \in 1..Len(items) : ~ItemInvalid(items[i])

\* ------------------------------------------------------ table lookups
OrderIds == 1..Len(orders)

RowsWithKey(ords, key) == { i \in 1..Len(ords) : ords[i].idempotencyKey = key }

RowsWithSession(ords, sid) == { i \in 1..Len(ords) : ords[i].stripeCheckoutId = sid }

\* findUnique: the row with the key, or Null.
findOrderByIdempotencyKey(key) ==
    IF RowsWithKey(orders, key) = {} THEN Null
    ELSE CHOOSE i \in RowsWithKey(orders, key) : TRUE

findOrderByStripeCheckoutId(sid) ==
    IF sid = Null \/ RowsWithSession(orders, sid) = {} THEN Null
    ELSE CHOOSE i \in RowsWithSession(orders, sid) : TRUE

\* The number of rows of the table with this id.
RECURSIVE CountRows(_, _)
CountRows(evs, rows) ==
    IF rows = {} THEN 0
    ELSE LET r == CHOOSE x \in rows : TRUE IN CopiesIn(r, evs) + CountRows(evs, rows \ {r})

EventRowCount(evs, id) == CountRows(evs, { r \in BagToSet(evs) : r.id = id })

\* ------------------------------------------------- the provider (gateway)
SessionsWithKey(key) == { s \in 1..Len(sessions) : sessions[s].key = key }

\* What stripe.checkout.sessions.create answers for (orderId, items) under an
\* idempotency key: a first call mints a session; the same key with identical
\* parameters replays the first answer; the same key with other parameters is
\* an idempotency error.
StripeSuccess(sid) ==
    [success |-> TRUE, sessionId |-> sid, sessionUrl |-> sid, errorType |-> ""]

StripeFailure(errorType) ==
    [success |-> FALSE, sessionId |-> Null, sessionUrl |-> Null, errorType |-> errorType]

NoResult == StripeFailure("")

\* The errors the provider's client library throws: an error object belongs to
\* one class and carries a code (none: "").
StripeErrorClasses ==
    { "StripeCardError", "StripeRateLimitError", "StripeInvalidRequestError", "StripeAPIError",
      "StripeConnectionError", "StripeAuthenticationError", "StripeIdempotencyError" }

\* The errors drawn: one without a code of each class whose answer has its own
\* message and of two classes that share the default one, and the code
\* idempotency_key_in_use on an error of a class the chain names and on one of a
\* class it does not name.
StripeErrors ==
    [class : StripeErrorClasses \ {"StripeAPIError", "StripeAuthenticationError"}, code : {""}]
    \cup [class : {"StripeInvalidRequestError", "StripeIdempotencyError"},
          code : {"idempotency_key_in_use"}]

NoError == [class |-> "", code |-> ""]

\* getStripeErrorType: the instanceof chain over six classes, then the code,
\* then the default.
getStripeErrorType(error) ==
    IF error.class = "StripeCardError" THEN "StripeCardError"
    ELSE IF error.class = "StripeRateLimitError" THEN "StripeRateLimitError"
    ELSE IF error.class = "StripeInvalidRequestError" THEN "StripeInvalidRequestError"
    ELSE IF error.class = "StripeAPIError" THEN "StripeAPIError"
    ELSE IF error.class = "StripeConnectionError" THEN "StripeConnectionError"
    ELSE IF error.class = "StripeAuthenticationError" THEN "StripeAuthenticationError"
    ELSE IF error.code = "idempotency_key_in_use" THEN "StripeIdempotencyError"
    ELSE "StripeAPIError"

\* The error the provider answers to a key reused with other parameters.
KeyReuseError == [class |-> "StripeIdempotencyError", code |-> ""]

\* (a provider that refuses every call under a key already used)
SessionsCreateRefusesUsedKey(orderId, items, key) ==
    IF SessionsWithKey(key) = {}
    THEN StripeSuccess(Len(sessions) + 1)
    ELSE StripeFailure("StripeIdempotencyError")

SessionsCreate(orderId, items, key) ==
    IF SessionsWithKey(key) = {}
    THEN StripeSuccess(Len(sessions) + 1)
    ELSE LET s == CHOOSE x \in SessionsWithKey(key) : TRUE IN
         IF sessions[s].orderRef = orderId /\ sessions[s].items = items
         THEN StripeSuccess(s)
         ELSE StripeFailure(getStripeErrorType(KeyReuseError))

\* (a provider call made without the idempotency key: every call mints a session)
SessionsCreatedAnew(orderId, items, key) ==
    Append(sessions, [key |-> key, orderRef |-> orderId, items |-> items, open |-> TRUE])

SessionsAfterCreate(orderId, items, key) ==
    IF SessionsWithKey(key) = {}
    THEN Append(sessions, [key |-> key, orderRef |-> orderId, items |-> items, open |-> TRUE])
    ELSE sessions

\* A session completes or expires at the provider: it has no url any more.
SessionsAfterClose(sid) == [sessions EXCEPT ![sid].open = FALSE]

\* stripe.checkout.sessions.retrieve: the url of an open session, none once the
\* session is complete or expired.
SessionUrl(sid) == IF sessions[sid].open THEN sid ELSE Null

\* -------------------------------------------------------- storage layer
\* (a table without the unique index on idempotencyKey)
NoUniqueKey(key) == FALSE

\* The unique index on Order.idempotencyKey refuses a second row with the key.
UniqueKeyViolation(key) == RowsWithKey(orders, key) # {}

\* The unique index on Order.stripeCheckoutId refuses the id on a second row.
UniqueSessionViolation(orderId, sid) == RowsWithSession(orders, sid) \ {orderId} # {}

\* (a table whose id is no primary key)
NoPrimaryKey(id) == FALSE

\* The primary key of WebhookEvent refuses a second row with the id.
UniqueEventViolation(id) == EventRowCount(webhookEvents, id) > 0

\* (an insert that marks the order PROCESSING at once)
NewOrderProcessing(items, key, amount) ==
    [ status |-> "PROCESSING", amount |-> amount, currency |-> "usd", items |-> items,
      idempotencyKey |-> key, stripeCheckoutId |-> Null, stripePaymentId |-> Null,
      customerEmail |-> Null, paidAt |-> Null ]

NewOrder(items, key, amount) ==
    [ status |-> "PENDING", amount |-> amount, currency |-> "usd", items |-> items,
      idempotencyKey |-> key, stripeCheckoutId |-> Null, stripePaymentId |-> Null,
      customerEmail |-> Null, paidAt |-> Null ]

\* (an update that moves the order to PROCESSING without storing the session id)
UpdateStatusOnly(ords, orderId, sid) ==
    [ords EXCEPT ![orderId].status = "PROCESSING"]

\* (an update whose where clause selects every row)
UpdateEveryOrder(ords, orderId, sid) ==
    [i \in 1..Len(ords) |-> [ords[i] EXCEPT !.stripeCheckoutId = sid, !.status = "PROCESSING"]]

updateOrderWithStripeSession(ords, orderId, sid) ==
    [ords EXCEPT ![orderId].stripeCheckoutId = sid, ![orderId].status = "PROCESSING"]

\* The row lock a transaction holds on the order it updated, until it ends.
LockedBy(w) == IF wh[w].wrote /\ wh[w].pc \in {"insertEvent", "commit"} THEN wh[w].order ELSE Null

Locked(orderId) == \E w \in WebhookSlots : LockedBy(w) = orderId

\* --------------------------------------------------- the checkout request
NoResp == [status |-> 0, success |-> FALSE, sessionUrl |-> Null, orderId |-> Null, error |-> ""]

Resp(status, success, url, orderId, error) ==
    [status |-> status, success |-> success, sessionUrl |-> url, orderId |-> orderId, error |-> error]

IdleCheckout ==
    [ pc |-> "idle", items |-> << >>, clientKey |-> NoKey, key |-> NoKey, existingSid |-> Null,
      order |-> Null, result |-> NoResult, resp |-> NoResp, fault |-> FALSE,
      afterFailure |-> FALSE, error |-> NoError ]

Requests ==
    [ hasItems : {TRUE}, items : ItemLists, idempotencyKey : ClientKeys \cup {NoKey} ]
    \cup [ hasItems : {FALSE}, items : {<< >>}, idempotencyKey : {NoKey} ]

\* A request that ended keeps its key, its items and what it answered; one that
\* the provider refused keeps the classified error as well.
CheckoutDone(c, resp) ==
    co' = [co EXCEPT ![c].pc = "done", ![c].resp = resp, ![c].existingSid = Null,
                     ![c].order = Null, ![c].result = NoResult]


UnexpectedError == Resp(500, FALSE, Null, Null, "An unexpected error occurred. Please try again.")

\* (a handler that generates a key whatever the client sent)
AlwaysGenerated(clientKey, uuid) == uuid

\* clientKey || uuidv4()
IdempotencyKeyFor(clientKey, uuid) == IF clientKey # NoKey THEN clientKey ELSE uuid

\* Steps 1 and 2: validate, then take the client's key or generate one.
CStart(c) ==
    /\ co[c].pc \in {"idle", "done"}
    /\ \A c2 \in CheckoutSlots : c2 < c => co[c2].pc \notin {"idle", "done"}
    /\ used.requests < MaxRequests
    /\ \E body \in Requests :
        /\ used.uuids < Len(UuidPool)
        /\ IF ~body.hasItems \/ Len(body.items) = 0
           THEN /\ co' = [co EXCEPT ![c] = [IdleCheckout EXCEPT !.pc = "done", !.items = body.items,
                              !.resp = Resp(400, FALSE, Null, Null, "Cart items are required")]]
                /\ used' = [used EXCEPT !.requests = @ + 1]
           ELSE IF ~ItemsValid(body.items)
           THEN /\ co' = [co EXCEPT ![c] = [IdleCheckout EXCEPT !.pc = "done", !.items = body.items,
                              !.resp = Resp(400, FALSE, Null, Null, "Each item must have id and quantity >= 1")]]
                /\ used' = [used EXCEPT !.requests = @ + 1]
           ELSE /\ co' = [co EXCEPT ![c] = [IdleCheckout EXCEPT !.pc = "lookup", !.items = body.items,
                              !.clientKey = body.idempotencyKey,
                              !.key = IdempotencyKeyFor(body.idempotencyKey, UuidPool[used.uuids + 1])]]
                /\ used' = [used EXCEPT !.requests = @ + 1,
                                        !.uuids = IF body.idempotencyKey # NoKey THEN @ ELSE @ + 1]
    /\ UNCHANGED <<orders, webhookEvents, sessions, clock, wh, applied>>

\* Step 3: look the key up; an order that has a session goes to the provider.
CLookup(c) ==
    /\ co[c].pc = "lookup"
    /\ LET existingOrder == findOrderByIdempotencyKey(co[c].key) IN
       IF existingOrder # Null /\ orders[existingOrder].stripeCheckoutId # Null
       THEN co' = [co EXCEPT ![c].pc = "retrieve", ![c].order = existingOrder,
                             ![c].existingSid = orders[existingOrder].stripeCheckoutId]
       ELSE co' = [co EXCEPT ![c].pc = "findOrder"]
    /\ UNCHANGED <<orders, webhookEvents, sessions, clock, wh, used, applied>>

\* Step 3, after getCheckoutSession: a session with a url is the answer. The
\* session may have completed or expired at the provider by the time it is read.
\* (an answer that leaves the existing order's id out)
ResponseWithoutOrder(existingOrder, url) == Resp(200, TRUE, url, Null, "")

\* The answer from an existing order and its session's url.
ExistingSessionResponse(existingOrder, url) == Resp(200, TRUE, url, existingOrder, "")

CRetrieve(c) ==
    /\ co[c].pc = "retrieve"
    /\ \E closes \in BOOLEAN :
         /\ closes => sessions[co[c].existingSid].open
         /\ sessions' = IF closes THEN SessionsAfterClose(co[c].existingSid) ELSE sessions
         /\ LET url == IF closes THEN Null ELSE SessionUrl(co[c].existingSid) IN
            IF url # Null
            THEN CheckoutDone(c, ExistingSessionResponse(co[c].order, url))
            ELSE co' = [co EXCEPT ![c].pc = "findOrder", ![c].order = Null, ![c].existingSid = Null]
    /\ UNCHANGED <<orders, webhookEvents, clock, wh, used, applied>>

\* getCheckoutSession caught an error of the provider and returned null.
CRetrieveFail(c) ==
    /\ co[c].pc = "retrieve"
    /\ used.faults < MaxFaults
    /\ co' = [co EXCEPT ![c].pc = "findOrder", ![c].order = Null, ![c].existingSid = Null]
    /\ used' = [used EXCEPT !.faults = @ + 1]
    /\ UNCHANGED <<orders, webhookEvents, sessions, clock, wh, applied>>

\* Steps 4 and 5, createOrder's findUnique: an existing row is returned as it is.
CFindOrder(c) ==
    /\ co[c].pc = "findOrder"
    /\ LET existingOrder == findOrderByIdempotencyKey(co[c].key) IN
       IF existingOrder # Null
       THEN co' = [co EXCEPT ![c].pc = "stripe", ![c].order = existingOrder]
       ELSE co' = [co EXCEPT ![c].pc = "insert"]
    /\ UNCHANGED <<orders, webhookEvents, sessions, clock, wh, used, applied>>

\* createOrder's create: the insert, which the unique index may refuse.
CInsert(c) ==
    /\ co[c].pc = "insert"
    /\ IF UniqueKeyViolation(co[c].key)
       THEN /\ CheckoutDone(c, UnexpectedError)
            /\ UNCHANGED orders
       ELSE /\ orders' = Append(orders,
                    NewOrder(co[c].items, co[c].key, calculateOrderTotal(co[c].items)))
            /\ co' = [co EXCEPT ![c].pc = "stripe", ![c].order = Len(orders) + 1]
    /\ UNCHANGED <<webhookEvents, sessions, clock, wh, used, applied>>

StripeErrorMessage(errorType) ==
    CASE errorType = "StripeCardError" ->
            "Your card was declined. Please try a different payment method."
      [] errorType = "StripeRateLimitError" ->
            "Service is temporarily busy. Please try again in a moment."
      [] errorType = "StripeConnectionError" ->
            "Unable to connect to payment service. Please try again."
      [] errorType = "StripeIdempotencyError" ->
            "A conflicting request was made. Please refresh and try again."
      [] OTHER -> "Payment processing failed. Please try again later."

\* The answer to a request whose provider call did not succeed.
StripeFailureResponse(stripeResult) ==
    Resp(500, FALSE, Null, Null, StripeErrorMessage(stripeResult.errorType))

\* History: a request of the same key has ended on a failed provider call.
GatewayFailedBefore(c) ==
    \E c1 \in CheckoutSlots \ {c} :
       /\ co[c1].pc = "done" /\ co[c1].key = co[c].key
       /\ co[c1].fault /\ co[c1].result.errorType # ""

\* (a handler that gives the order up when the provider call fails)
OrdersWithOrderFailed(c) == [orders EXCEPT ![co[c].order].status = "FAILED"]

\* The Order table after a provider call that did not succeed: no write is made.
OrdersAfterStripeFailure(c) == orders

\* Step 6: create the provider session under the idempotency key.
CStripe(c) ==
    /\ co[c].pc = "stripe"
    /\ LET stripeResult == SessionsCreate(co[c].order, co[c].items, co[c].key) IN
       /\ sessions' = SessionsAfterCreate(co[c].order, co[c].items, co[c].key)
       /\ IF ~stripeResult.success
          THEN /\ co' = [co EXCEPT ![c].pc = "done", ![c].order = Null, ![c].result = stripeResult,
                                   ![c].error = KeyReuseError,
                                   ![c].resp = StripeFailureResponse(stripeResult)]
               /\ orders' = OrdersAfterStripeFailure(c)
          ELSE /\ co' = [co EXCEPT ![c].pc = "update", ![c].result = stripeResult,
                                   ![c].afterFailure = GatewayFailedBefore(c)]
               /\ UNCHANGED orders
    /\ UNCHANGED <<webhookEvents, clock, wh, used, applied>>

\* Step 6, the provider answered with a session that carries no url: the result
\* is { success: true, sessionId, sessionUrl: undefined }.
CStripeNoUrl(c) ==
    /\ co[c].pc = "stripe"
    /\ used.faults < MaxFaults
    /\ LET stripeResult == SessionsCreate(co[c].order, co[c].items, co[c].key) IN
       /\ stripeResult.success
       /\ sessions' = SessionsAfterCreate(co[c].order, co[c].items, co[c].key)
       /\ co' = [co EXCEPT ![c].pc = "update",
                           ![c].result = [stripeResult EXCEPT !.sessionUrl = Null],
                           ![c].afterFailure = GatewayFailedBefore(c)]
    /\ used' = [used EXCEPT !.faults = @ + 1]
    /\ UNCHANGED <<orders, webhookEvents, clock, wh, applied>>

\* Step 6, the provider call threw: handleStripeError classifies the error. A
\* connection that broke may have broken after the provider created the session.
CStripeFail(c) ==
    /\ co[c].pc = "stripe"
    /\ used.faults < MaxFaults
    /\ \E error \in StripeErrors, created \in BOOLEAN :
         LET errorType == getStripeErrorType(error) IN
         /\ created => error.class = "StripeConnectionError"
         /\ sessions' = IF created THEN SessionsAfterCreate(co[c].order, co[c].items, co[c].key)
                         ELSE sessions
         /\ co' = [co EXCEPT ![c].pc = "done", ![c].order = Null, ![c].fault = TRUE,
                     ![c].error = error,
                     ![c].result = StripeFailure(errorType),
                     ![c].resp = StripeFailureResponse(StripeFailure(errorType))]
    /\ orders' = OrdersAfterStripeFailure(c)
    /\ used' = [used EXCEPT !.faults = @ + 1]
    /\ UNCHANGED <<webhookEvents, clock, wh, applied>>

\* Steps 7 and 8: store the session id with status PROCESSING, then answer.
CUpdate(c) ==
    /\ co[c].pc = "update"
    /\ ~Locked(co[c].order)
    /\ IF UniqueSessionViolation(co[c].order, co[c].result.sessionId)
       THEN /\ CheckoutDone(c, UnexpectedError)
            /\ UNCHANGED orders
       ELSE /\ orders' = updateOrderWithStripeSession(orders, co[c].order, co[c].result.sessionId)
            /\ CheckoutDone(c, Resp(200, TRUE, co[c].result.sessionUrl, co[c].order, ""))
    /\ UNCHANGED <<webhookEvents, sessions, clock, wh, used, applied>>

\* A database call of the request threw: the catch-all answers 500.
CFail(c) ==
    /\ co[c].pc \in {"lookup", "findOrder", "insert", "update"}
    /\ used.faults < MaxFaults
    /\ co' = [co EXCEPT ![c].pc = "done", ![c].fault = TRUE, ![c].resp = UnexpectedError,
                     ![c].existingSid = Null, ![c].order = Null, ![c].result = NoResult]
    /\ used' = [used EXCEPT !.faults = @ + 1]
    /\ UNCHANGED <<orders, webhookEvents, sessions, clock, wh, applied>>

\* ---------------------------------------------------- the webhook request
SessionEventTypes == {"checkout.session.completed", "checkout.session.expired"}

EventId(type, session, n) == <<type, session, n>>

\* Whether the server has this event id before it: in the table or in a request.
Present(id) ==
    \/ EventRowCount(webhookEvents, id) > 0
    \/ \E w \in WebhookSlots : wh[w].event.id = id

\* The events the provider may send: a session event names one of the account's
\* sessions; an event id belongs to one event, so its content never varies. The
\* provider numbers the events of one kind for one session, and the server sees
\* number n + 1 only while it has number n before it (the ids are interchangeable).
Events ==
    { [id |-> EventId(t, s, n), type |-> t, session |-> s] :
        t \in SessionEventTypes, s \in 1..Len(sessions), n \in 1..MaxRequests }
    \cup
    { [id |-> EventId(t, Null, 1), type |-> t, session |-> Null] :
        t \in EventTypes \ SessionEventTypes }

Deliverable(event) == event.id[3] = 1 \/ Present(EventId(event.type, event.session, event.id[3] - 1))

RawBodies == {"absent", "exact", "altered"}

\* (a handler that takes the payload without checking its signature)
SignatureUnchecked(rawBody, signature) == TRUE

\* stripe.webhooks.constructEvent: the event when the signature is the provider's
\* signature of exactly these bytes, null (FALSE) otherwise.
verifyWebhookSignature(rawBody, signature) == signature = "stripe" /\ rawBody = "exact"

NoEvent == [id |-> << >>, type |-> "", session |-> Null]

\* authentic: whether the request is the provider's own (what the signature proves).
IdleWebhook ==
    [ pc |-> "idle", event |-> NoEvent, authentic |-> FALSE, order |-> Null, wrote |-> FALSE,
      paidAt |-> Null, inserted |-> FALSE, status |-> 0, fault |-> FALSE,
      outcome |-> "", returned |-> "" ]

\* A request that ended keeps its event, its answer, and whether its transaction
\* had written the order.
WebhookDone(w, status, fault) ==
    [IdleWebhook EXCEPT !.pc = "done", !.authentic = wh[w].authentic, !.wrote = wh[w].wrote,
                        !.event = wh[w].event, !.status = status, !.fault = fault]

\* What markOrderAsPaid and markOrderAsFailed return on each path of the
\* transaction: the order row, or null.
Returned(outcome) ==
    IF outcome \in {"applied", "alreadyPaid"} THEN "order" ELSE "null"

\* The transaction returned on this path and the handler answers 200.
WebhookReturned(w, outcome) ==
    [WebhookDone(w, 200, FALSE) EXCEPT !.outcome = outcome, !.returned = Returned(outcome)]

\* (a switch that sends every event to the transaction)
AllEventTypes ==
    { "checkout.session.completed", "checkout.session.expired",
      "payment_intent.payment_failed", "payment_intent.succeeded" }

\* The cases of the switch that run a transaction.
TransactionEventTypes == SessionEventTypes

\* Steps 1 to 3 of handleStripeWebhook, up to the first await.
WReceive(w) ==
    /\ wh[w].pc \in {"idle", "done"}
    /\ \A w2 \in WebhookSlots : w2 < w => wh[w2].pc \notin {"idle", "done"}
    /\ used.requests < MaxRequests
    /\ \E event \in Events, signature \in Signatures, rawBody \in RawBodies :
         LET authentic == signature = "stripe" /\ rawBody = "exact" IN
         /\ IF authentic THEN Deliverable(event) ELSE event.id[3] = 1
         /\ IF signature = "" \/ rawBody = "absent" \/ ~verifyWebhookSignature(rawBody, signature)
            THEN wh' = [wh EXCEPT ![w] = [IdleWebhook EXCEPT !.pc = "done", !.event = event,
                                             !.authentic = authentic, !.status = 400]]
            ELSE IF event.type \in TransactionEventTypes
            THEN wh' = [wh EXCEPT ![w] = [IdleWebhook EXCEPT !.pc = "findEvent", !.event = event,
                                             !.authentic = authentic]]
            ELSE wh' = [wh EXCEPT ![w] = [IdleWebhook EXCEPT !.pc = "done", !.event = event,
                                             !.authentic = authentic, !.status = 200]]
    /\ used' = [used EXCEPT !.requests = @ + 1]
    /\ UNCHANGED <<orders, webhookEvents, sessions, clock, co, applied>>

\* (a transaction without the first read)
NeverProcessed(id) == FALSE

\* tx.webhookEvent.findUnique: whether the event's row is in the table.
AlreadyProcessed(id) == EventRowCount(webhookEvents, id) > 0

\* The transaction's first read: an event already recorded ends it with null.
WFindEvent(w) ==
    /\ wh[w].pc = "findEvent"
    /\ IF AlreadyProcessed(wh[w].event.id)
       THEN wh' = [wh EXCEPT ![w] = WebhookReturned(w, "duplicate")]
       ELSE wh' = [wh EXCEPT ![w].pc = "findOrder"]
    /\ UNCHANGED <<orders, webhookEvents, sessions, clock, co, used, applied>>

\* The transaction's second read, and the branch taken on the row read:
\* markOrderAsPaid skips the update of a PAID order, markOrderAsFailed never does.
\* (a transaction without the check of the status)
NeverSkips(type, status) == FALSE

SkipsUpdate(type, status) == type = "checkout.session.completed" /\ status = "PAID"

WFindOrder(w) ==
    /\ wh[w].pc = "findOrder"
    /\ LET order == findOrderByStripeCheckoutId(wh[w].event.session) IN
       IF order = Null
       THEN wh' = [wh EXCEPT ![w].pc = "insertEvent", ![w].outcome = "notFound"]
       ELSE IF SkipsUpdate(wh[w].event.type, orders[order].status)
       THEN wh' = [wh EXCEPT ![w].pc = "insertEvent", ![w].order = order, ![w].outcome = "alreadyPaid"]
       ELSE wh' = [wh EXCEPT ![w].pc = "update", ![w].order = order, ![w].outcome = "applied"]
    /\ UNCHANGED <<orders, webhookEvents, sessions, clock, co, used, applied>>

\* tx.order.update: waits for the row lock, then writes inside the transaction;
\* paidAt is new Date(), the time of this step.
WUpdate(w) ==
    /\ wh[w].pc = "update"
    /\ ~Locked(wh[w].order)
    /\ IF wh[w].event.type = "checkout.session.completed"
       THEN \E now \in {clock, clock + 1} :
              /\ wh' = [wh EXCEPT ![w].pc = "insertEvent", ![w].wrote = TRUE, ![w].paidAt = now]
              /\ clock' = now
       ELSE /\ wh' = [wh EXCEPT ![w].pc = "insertEvent", ![w].wrote = TRUE]
            /\ UNCHANGED clock
    /\ UNCHANGED <<orders, webhookEvents, sessions, co, used, applied>>

\* A transaction that has inserted the id and not ended yet.
InsertingEvent(w, id) == wh[w].pc = "commit" /\ wh[w].inserted /\ wh[w].event.id = id

\* What the completed session carries: its payment intent and its customer's email.
PaymentIntent(sid) == sid

CustomerEmail(sid) == sid

\* (an update that writes the status and none of the payment data)
OrdersWrittenStatusOnly(w) ==
    IF ~wh[w].wrote THEN orders
    ELSE [orders EXCEPT ![wh[w].order].status =
             IF wh[w].event.type = "checkout.session.completed" THEN "PAID" ELSE "FAILED"]

\* (an update whose where clause selects every row)
OrdersWrittenEveryRow(w) ==
    IF ~wh[w].wrote THEN orders
    ELSE [o \in 1..Len(orders) |->
            [orders[o] EXCEPT !.status =
                IF wh[w].event.type = "checkout.session.completed" THEN "PAID" ELSE "FAILED"]]

\* (an update that also resets the amount)
OrdersWrittenAndAmount(w) ==
    IF ~wh[w].wrote THEN orders
    ELSE [orders EXCEPT ![wh[w].order].status = "PAID", ![wh[w].order].amount = 0]

\* The rows a transaction leaves behind when it commits, and when it rolls back.
OrdersWritten(w) ==
    IF ~wh[w].wrote THEN orders
    ELSE IF wh[w].event.type = "checkout.session.completed"
    THEN [orders EXCEPT ![wh[w].order].status = "PAID",
                        ![wh[w].order].stripePaymentId = PaymentIntent(wh[w].event.session),
                        ![wh[w].order].customerEmail = CustomerEmail(wh[w].event.session),
                        ![wh[w].order].paidAt = wh[w].paidAt]
    ELSE [orders EXCEPT ![wh[w].order].status = "FAILED"]

\* (a transaction that records no event)
EventsNotRecorded(w) == webhookEvents

EventsWritten(w) ==
    IF wh[w].inserted
    THEN webhookEvents (+) SetToBag({[id |-> wh[w].event.id, type |-> wh[w].event.type]})
    ELSE webhookEvents

\* (order writes made outside the transaction: they survive its rollback)
OrdersKeptOnRollback(w) == OrdersWritten(w)

OrdersAfterRollback(w) == orders

\* (a rollback that empties the table)
EventsClearedOnRollback(w) == EmptyBag

EventsAfterRollback(w) == webhookEvents

Rollback(w, fault) ==
    /\ wh' = [wh EXCEPT ![w] = WebhookDone(w, 500, fault)]
    /\ orders' = OrdersAfterRollback(w)
    /\ webhookEvents' = EventsAfterRollback(w)

\* tx.webhookEvent.create: waits for a transaction inserting the same id, and is
\* refused by the primary key when the id is already committed.
WInsertEvent(w) ==
    /\ wh[w].pc = "insertEvent"
    /\ ~\E w2 \in WebhookSlots \ {w} : InsertingEvent(w2, wh[w].event.id)
    /\ IF UniqueEventViolation(wh[w].event.id)
       THEN Rollback(w, FALSE)
       ELSE /\ wh' = [wh EXCEPT ![w].pc = "commit", ![w].inserted = TRUE]
            /\ UNCHANGED <<orders, webhookEvents>>
    /\ UNCHANGED <<sessions, clock, co, used, applied>>

\* The transaction's callback returned: commit, then answer 200.
WCommit(w) ==
    /\ wh[w].pc = "commit"
    /\ orders' = OrdersWritten(w)
    /\ webhookEvents' = EventsWritten(w)
    /\ wh' = [wh EXCEPT ![w] = WebhookReturned(w, wh[w].outcome)]
    /\ applied' = IF wh[w].wrote THEN applied (+) SetToBag({wh[w].event.id}) ELSE applied
    /\ UNCHANGED <<sessions, clock, co, used>>

\* A statement of the transaction threw: roll back, then answer 500.
WFail(w) ==
    /\ wh[w].pc \in {"findEvent", "findOrder", "update", "insertEvent", "commit"}
    /\ used.faults < MaxFaults
    /\ Rollback(w, TRUE)
    /\ used' = [used EXCEPT !.faults = @ + 1]
    /\ UNCHANGED <<sessions, clock, co, applied>>

\* ---------------------------------------------------------- specification
\* The database and the provider's account outlive the server: it starts on an
\* empty database, or on one an earlier checkout (key_A, one p1 line) has left:
\* its order in PROCESSING with its session open, or as described below.
SeedItems == <<Item("p1", 500, 2)>>

SeedOrders ==
    updateOrderWithStripeSession(
        <<NewOrder(SeedItems, "key_A", calculateOrderTotal(SeedItems))>>, 1, 1)

SeedSessions == <<[key |-> "key_A", orderRef |-> 1, items |-> SeedItems, open |-> TRUE]>>

\* The database an earlier checkout leaves when its last update failed after the
\* provider had created the session, and a completed event for that session was
\* recorded meanwhile: the order is PENDING without a session id.
SeedPendingOrders == <<NewOrder(SeedItems, "key_A", calculateOrderTotal(SeedItems))>>

SeedEvents ==
    SetToBag({[id |-> EventId("checkout.session.completed", 1, 1),
               type |-> "checkout.session.completed"]})

Init ==
    /\ \/ orders = << >> /\ sessions = << >> /\ webhookEvents = EmptyBag
       \/ orders = SeedOrders /\ sessions = SeedSessions /\ webhookEvents = EmptyBag
       \/ orders = SeedPendingOrders /\ sessions = SeedSessions /\ webhookEvents = SeedEvents
    /\ clock = 1
    /\ co = [c \in CheckoutSlots |-> IdleCheckout]
    /\ wh = [w \in WebhookSlots |-> IdleWebhook]
    /\ used = [requests |-> 0, faults |-> 0, uuids |-> 0]
    /\ applied = EmptyBag

Next ==
    \/ \E c \in CheckoutSlots :
         \/ CStart(c) \/ CLookup(c) \/ CRetrieve(c) \/ CRetrieveFail(c) \/ CFindOrder(c)
         \/ CInsert(c) \/ CStripe(c) \/ CStripeNoUrl(c) \/ CStripeFail(c) \/ CUpdate(c) \/ CFail(c)
    \/ \E w \in WebhookSlots :
         \/ WReceive(w) \/ WFindEvent(w) \/ WFindOrder(w) \/ WUpdate(w)
         \/ WInsertEvent(w) \/ WCommit(w) \/ WFail(w)

Spec == Init /\ [][Next]_vars

\* ------------------------------------------------------------------ claims
Terminal == {"PAID", "FAILED"}

WebhookStep == wh' # wh

CheckoutStep == co' # co

TxPcs == {"findEvent", "findOrder", "update", "insertEvent", "commit"}

OrderOfSession(sid) == findOrderByStripeCheckoutId(sid)

\* C1: no webhook event moves an order that is PAID or FAILED to another status.
C1_WebhookKeepsTerminal ==
    [][WebhookStep =>
         \A o \in 1..Len(orders) :
            orders[o].status \in Terminal => orders'[o].status = orders[o].status]_vars

\* C2: a checkout request never sets a terminal order back to PROCESSING (so the
\* status history stays a prefix of PENDING, PROCESSING, PAID or FAILED).
C2_CheckoutKeepsTerminal ==
    [][CheckoutStep =>
         \A o \in 1..Len(orders) :
            orders[o].status \in Terminal => orders'[o].status = orders[o].status]_vars

\* C3: however often and however concurrently one event id is delivered, the
\* table never holds two rows for the id, it holds exactly one once a delivery
\* of the id has run to its end with no storage outage, and at most one
\* transaction that wrote the order has committed for the id.
C3_OneRowOneTransition ==
    /\ \A r \in BagToSet(webhookEvents) : EventRowCount(webhookEvents, r.id) = 1
    /\ \A id \in BagToSet(applied) : CopiesIn(id, applied) <= 1
    /\ \A w \in WebhookSlots :
         ( /\ wh[w].pc = "done" /\ wh[w].authentic /\ ~wh[w].fault
           /\ wh[w].event.type \in SessionEventTypes )
            => EventRowCount(webhookEvents, wh[w].event.id) = 1

\* Two concurrent deliveries of one event id both wrote the order in their
\* transactions; one committed, the other was refused and rolled back.
C3_Witness ==
    \E w1, w2 \in WebhookSlots :
       /\ w1 # w2 /\ wh[w1].pc = "done" /\ wh[w2].pc = "done"
       /\ wh[w1].event.id = wh[w2].event.id
       /\ wh[w1].wrote /\ wh[w2].wrote
       /\ wh[w1].status = 200 /\ wh[w2].status = 500
       /\ EventRowCount(webhookEvents, wh[w1].event.id) = 1
       /\ CopiesIn(wh[w1].event.id, applied) = 1

\* C4: requests with one idempotency key (and the order's items), none hit by an
\* outage, all get a success answer with the same orderId and sessionUrl, and one
\* Order row exists for the key.
C4_SameKeySameAnswer ==
    \A c1, c2 \in CheckoutSlots :
       ( /\ c1 # c2 /\ co[c1].pc = "done" /\ co[c2].pc = "done"
         /\ co[c1].key # NoKey /\ co[c1].key = co[c2].key
         /\ co[c1].items = co[c2].items
         /\ \A o \in RowsWithKey(orders, co[c1].key) : orders[o].items = co[c1].items
         /\ ~co[c1].fault /\ ~co[c2].fault )
       => /\ co[c1].resp.success /\ co[c2].resp.success
          /\ co[c1].resp.orderId = co[c2].resp.orderId
          /\ co[c1].resp.sessionUrl = co[c2].resp.sessionUrl
          /\ Cardinality(RowsWithKey(orders, co[c1].key)) = 1

\* C5: a webhook transaction that fails at any step leaves neither its order
\* write nor its WebhookEvent row behind.
C5_FailedTransactionLeavesNothing ==
    [][\A w \in WebhookSlots :
          wh[w].pc \in TxPcs /\ wh'[w].pc = "done" /\ wh'[w].status = 500
             => orders' = orders /\ webhookEvents' = webhookEvents]_vars

\* A transaction failed after it had written the order: the order is still
\* PROCESSING and unpaid, and the event is not recorded.
C5_Witness ==
    \E w \in WebhookSlots :
       /\ wh[w].pc = "done" /\ wh[w].status = 500 /\ wh[w].fault /\ wh[w].wrote
       /\ EventRowCount(webhookEvents, wh[w].event.id) = 0
       /\ OrderOfSession(wh[w].event.session) # Null
       /\ orders[OrderOfSession(wh[w].event.session)].status = "PROCESSING"
       /\ orders[OrderOfSession(wh[w].event.session)].paidAt = Null

\* C6: a webhook request that is not the provider's (no signature, no raw body,
\* a signature that does not verify) is answered 400 in the step that receives
\* it, and that step changes no Order row and inserts no WebhookEvent row.
C6_UnverifiedRejected ==
    [][\A w \in WebhookSlots :
          wh'[w] # wh[w] /\ ~wh'[w].authentic
             => /\ wh'[w].pc = "done" /\ wh'[w].status = 400
                /\ orders' = orders /\ webhookEvents' = webhookEvents]_vars

\* A forged completed event for the session of an order in PROCESSING was
\* answered 400 and the order is still in PROCESSING.
C6_Witness ==
    \E w \in WebhookSlots :
       /\ wh[w].pc = "done" /\ wh[w].status = 400 /\ ~wh[w].authentic
       /\ wh[w].event.type = "checkout.session.completed"
       /\ OrderOfSession(wh[w].event.session) # Null
       /\ orders[OrderOfSession(wh[w].event.session)].status = "PROCESSING"
       /\ webhookEvents = EmptyBag

\* C7: a verified event is answered 200 unless a storage operation failed: a
\* duplicate delivery, also a concurrent one, is answered 200.
C7_VerifiedAnswered200 ==
    \A w \in WebhookSlots :
       wh[w].pc = "done" /\ wh[w].authentic /\ ~wh[w].fault => wh[w].status = 200

\* C8: once paidAt is set, no later step changes it.
C8_PaidAtSetOnce ==
    [][\A o \in 1..Len(orders) :
          orders[o].paidAt # Null => orders'[o].paidAt = orders[o].paidAt]_vars

\* C9: at most one Order row per idempotencyKey.
C9_OneOrderPerKey ==
    \A i, j \in 1..Len(orders) :
       orders[i].idempotencyKey = orders[j].idempotencyKey => i = j

\* Two requests raced to insert an order for one key: the second insert was
\* refused, and one row holds the key.
C9_Witness ==
    \E c \in CheckoutSlots :
       /\ co[c].pc = "done" /\ co[c].resp = UnexpectedError /\ ~co[c].fault
       /\ Cardinality(RowsWithKey(orders, co[c].key)) = 1

\* C10: at most one Order row per non-null stripeCheckoutId.
C10_OneOrderPerSession ==
    \A i, j \in 1..Len(orders) :
       orders[i].stripeCheckoutId # Null /\ orders[i].stripeCheckoutId = orders[j].stripeCheckoutId
          => i = j

\* Two orders, each with its own session.
C10_Witness ==
    \E i, j \in 1..Len(orders) :
       /\ i # j
       /\ orders[i].stripeCheckoutId # Null /\ orders[j].stripeCheckoutId # Null

\* C11: a request with the key of an existing order and another item list is
\* answered with success and that order's id, and no provider session holds an
\* item list other than its order's.
C11_KeyWinsOverPayload ==
    /\ \A c \in CheckoutSlots :
         ( /\ co[c].pc = "done" /\ ~co[c].fault /\ co[c].key # NoKey
           /\ \E o \in RowsWithKey(orders, co[c].key) : orders[o].items # co[c].items )
         => /\ co[c].resp.success
            /\ co[c].resp.orderId = findOrderByIdempotencyKey(co[c].key)
    /\ \A s \in 1..Len(sessions) : sessions[s].items = orders[sessions[s].orderRef].items

KeysSeen ==
    { orders[o].idempotencyKey : o \in 1..Len(orders) } \cup { sessions[s].key : s \in 1..Len(sessions) }

\* C12: for every idempotency key there is at most one Order row and at most one
\* provider session, whatever requests with the key ran and however they interleaved.
C12_OneOrderOneSessionPerKey ==
    \A key \in KeysSeen :
       /\ Cardinality(RowsWithKey(orders, key)) <= 1
       /\ Cardinality(SessionsWithKey(key)) <= 1

\* A request got from the provider the session its order already holds: the
\* provider was called again for the key and replayed the first session.
C12_Witness ==
    \E c \in CheckoutSlots :
       /\ co[c].pc = "update" /\ co[c].result.success
       /\ orders[co[c].order].stripeCheckoutId = co[c].result.sessionId
       /\ Cardinality(SessionsWithKey(co[c].key)) = 1

\* The sum of price times quantity over the lines, line by line.
RECURSIVE SumOfLines(_, _)
SumOfLines(items, n) ==
    IF n = 0 THEN 0 ELSE items[n].price * items[n].quantity + SumOfLines(items, n - 1)

\* C13: the amount of every Order row is the sum over its items of price times
\* quantity, an integer number of minor units.
C13_AmountIsSum ==
    \A o \in 1..Len(orders) :
       /\ orders[o].amount \in Int
       /\ orders[o].amount = SumOfLines(orders[o].items, Len(orders[o].items))

\* An order was created from a cart of two lines, 500 x 2 and 300 x 3.
C13_Witness ==
    \E o \in 1..Len(orders) :
       /\ Len(orders[o].items) = 2
       /\ orders[o].amount = 1900

\* C14: a request whose item list is absent, empty, or holds an item with an
\* empty id or a quantity below 1 is answered 400 in its first step, which reads
\* and writes no Order row and calls the provider for nothing; only requests
\* with valid items ever reach a database or provider call.
C14_InvalidRejectedFirst ==
    /\ [](\A c \in CheckoutSlots : co[c].pc \notin {"idle", "done"} => ItemsValid(co[c].items))
    /\ [][\A c \in CheckoutSlots :
            ( /\ co[c].pc \in {"idle", "done"} /\ co'[c] # co[c]
              /\ \/ Len(co'[c].items) = 0
                 \/ \E i \in 1..Len(co'[c].items) :
                       co'[c].items[i].id = "" \/ co'[c].items[i].quantity < 1 )
            => /\ co'[c].pc = "done" /\ co'[c].resp.status = 400 /\ ~co'[c].resp.success
               /\ orders' = orders /\ sessions' = sessions]_vars

\* A cart whose second line has quantity -1 was rejected with 400.
C14_Witness ==
    \E c \in CheckoutSlots :
       /\ co[c].pc = "done" /\ co[c].resp.status = 400
       /\ Len(co[c].items) = 2 /\ co[c].items[2].quantity = -1

\* C15: when the provider's session creation fails, the step changes no Order
\* row (the order of the key is still there, with the status and session id it
\* had), and the caller gets an error answer.
C15_GatewayFailureKeepsOrder ==
    [][\A c \in CheckoutSlots :
          co[c].pc = "stripe" /\ co'[c].pc = "done"
             => /\ orders' = orders
                /\ co[c].order \in RowsWithKey(orders', co[c].key)
                /\ ~co'[c].resp.success /\ co'[c].resp.status = 500
                /\ co'[c].resp.error # ""]_vars

\* After a request of the key ended on a failed provider call, another request
\* of the key got its session and succeeded on the key's one order.
C15_Witness ==
    \E c \in CheckoutSlots :
       /\ co[c].pc = "done" /\ co[c].afterFailure /\ co[c].resp.success
       /\ RowsWithKey(orders, co[c].key) = {co[c].resp.orderId}
       /\ orders[co[c].resp.orderId].status = "PROCESSING"
       /\ orders[co[c].resp.orderId].stripeCheckoutId = co[c].resp.sessionUrl

\* C16: a request that finds the key's order with a session for which the
\* provider reports a url answers with that url and that order's id, and its
\* step writes no Order row and creates no provider session.
C16_ReplayReturnsExisting ==
    [][\A c \in CheckoutSlots :
          co[c].pc = "retrieve" /\ co'[c].pc = "done"
             => /\ co'[c].resp.success /\ co'[c].resp.status = 200
                /\ co'[c].resp.sessionUrl = co[c].existingSid
                /\ co'[c].resp.orderId = findOrderByIdempotencyKey(co[c].key)
                /\ orders' = orders /\ sessions' = sessions]_vars

\* One request, for the key of the stored order whose session is open, was
\* answered with that order and that session.
C16_Witness ==
    \E c \in CheckoutSlots :
       /\ co[c].pc = "done" /\ co[c].resp.success /\ co[c].key = "key_A"
       /\ used.requests = 1 /\ used.faults = 0
       /\ orders = SeedOrders /\ sessions = SeedSessions
       /\ co[c].resp.orderId = 1 /\ co[c].resp.sessionUrl = 1

\* C17: an Order row is inserted as PENDING while the provider has no session for
\* its key; a request calls the provider, and a session exists, only for a key
\* whose Order row exists; and an order becomes PROCESSING only in the step of a
\* request that holds the provider's successful answer for it.
C17_OrderBeforeSession ==
    /\ [](/\ \A c \in CheckoutSlots :
               co[c].pc \in {"stripe", "update"} => co[c].order \in RowsWithKey(orders, co[c].key)
          /\ \A s \in 1..Len(sessions) :
               sessions[s].orderRef \in RowsWithKey(orders, sessions[s].key))
    /\ [][\A o \in 1..Len(orders') :
            /\ o > Len(orders)
                 => /\ orders'[o].status = "PENDING" /\ orders'[o].stripeCheckoutId = Null
                    /\ SessionsWithKey(orders'[o].idempotencyKey) = {}
            /\ (o <= Len(orders) /\ orders'[o].status = "PROCESSING" /\ orders[o].status # "PROCESSING")
                 => \E c \in CheckoutSlots :
                       /\ co[c].pc = "update" /\ co[c].order = o /\ co[c].result.success
                       /\ co[c].result.sessionId \in SessionsWithKey(orders[o].idempotencyKey)]_vars

\* A request without a client key (items p1 x 2 at 500) has its order, amount
\* 1000, in PROCESSING with the session created for it.
C17_Witness ==
    \E o \in 1..Len(orders) :
       /\ orders[o].idempotencyKey = "uuid_1" /\ orders[o].amount = 1000
       /\ orders[o].status = "PROCESSING"
       /\ orders[o].stripeCheckoutId \in SessionsWithKey("uuid_1")

\* C18: two requests refused by the provider with errors of different classes
\* are answered with different HTTP statuses and different messages.
C18_DistinctAnswerPerErrorClass ==
    \A c1, c2 \in CheckoutSlots :
       ( /\ co[c1].pc = "done" /\ co[c2].pc = "done"
         /\ co[c1].result.errorType # "" /\ co[c2].result.errorType # ""
         /\ co[c1].result.errorType # co[c2].result.errorType )
       => /\ co[c1].resp.status # co[c2].resp.status
          /\ co[c1].resp.error # co[c2].resp.error

\* C19: the commit of a transaction that updated an order in PENDING or
\* PROCESSING leaves, for a completed event, the order PAID with the session's
\* payment id and customer email and a paidAt, and for an expired event the
\* order FAILED with those three fields as they were; either way the event's
\* row is in the table.
C19_FirstEventApplied ==
    [][\A w \in WebhookSlots :
          ( /\ wh[w].pc = "commit" /\ wh'[w].pc = "done" /\ wh'[w].status = 200
            /\ wh[w].wrote /\ orders[wh[w].order].status \in {"PENDING", "PROCESSING"} )
          => LET o == wh[w].order IN
             /\ EventRowCount(webhookEvents', wh[w].event.id) = 1
             /\ IF wh[w].event.type = "checkout.session.completed"
                THEN /\ orders'[o].status = "PAID"
                     /\ orders'[o].stripePaymentId = wh[w].event.session
                     /\ orders'[o].customerEmail = wh[w].event.session
                     /\ orders'[o].paidAt # Null
                ELSE /\ orders'[o].status = "FAILED"
                     /\ orders'[o].stripePaymentId = orders[o].stripePaymentId
                     /\ orders'[o].customerEmail = orders[o].customerEmail
                     /\ orders'[o].paidAt = orders[o].paidAt]_vars

\* A completed event was applied to an order: it is PAID with its payment data,
\* and the event is recorded once.
C19_Witness ==
    \E w \in WebhookSlots :
       /\ wh[w].pc = "done" /\ wh[w].status = 200 /\ wh[w].wrote
       /\ wh[w].event.type = "checkout.session.completed"
       /\ EventRowCount(webhookEvents, wh[w].event.id) = 1
       /\ LET o == OrderOfSession(wh[w].event.session) IN
          /\ o # Null /\ orders[o].status = "PAID" /\ orders[o].paidAt # Null
          /\ orders[o].stripePaymentId # Null /\ orders[o].customerEmail # Null

\* C20: an order that holds a payment id, a customer email or a paidAt is PAID.
C20_PaymentDataOnlyOnPaid ==
    \A o \in 1..Len(orders) :
       (orders[o].stripePaymentId # Null \/ orders[o].customerEmail # Null \/ orders[o].paidAt # Null)
          => orders[o].status = "PAID"

\* The rows of the table for completed events of session sid.
CompletedRows(evs, sid) ==
    { r \in BagToSet(evs) : r.type = "checkout.session.completed" /\ r.id[2] = sid }

\* C21: a completed event of a session is never recorded as "order not found"
\* when an order holds or comes to hold that session: no order gets a session id
\* stored while a completed event of the session is already in the table, and no
\* transaction that found no order commits its event while an order holds the
\* session.
C21_CompletedNeverLost ==
    [][\A o \in 1..Len(orders') :
          LET sid == orders'[o].stripeCheckoutId IN
          sid # Null =>
             /\ (o <= Len(orders) /\ orders[o].stripeCheckoutId # sid)
                   => CompletedRows(webhookEvents, sid) = {}
             /\ \A w \in WebhookSlots :
                   ( /\ wh[w].pc = "commit" /\ wh'[w].pc = "done" /\ wh'[w].status = 200
                     /\ wh[w].event.type = "checkout.session.completed"
                     /\ wh[w].event.session = sid )
                   => wh[w].outcome # "notFound"]_vars

\* C22: a transaction for a completed event that reads its order as PAID makes
\* no update, and its commit leaves every field of the order as it was and the
\* event's row in the table, answered 200.
C22_PaidOrderUntouched ==
    [][\A w \in WebhookSlots :
          /\ ( /\ wh[w].pc = "findOrder" /\ wh'[w].pc \notin {"findOrder", "done"}
               /\ wh[w].event.type = "checkout.session.completed"
               /\ OrderOfSession(wh[w].event.session) # Null
               /\ orders[OrderOfSession(wh[w].event.session)].status = "PAID" )
             => /\ wh'[w].pc = "insertEvent" /\ ~wh'[w].wrote
                /\ wh'[w].outcome = "alreadyPaid"
                /\ orders' = orders
          /\ ( /\ wh[w].pc = "commit" /\ wh'[w].pc = "done" /\ wh'[w].status = 200
               /\ wh[w].outcome = "alreadyPaid" )
             => /\ orders' = orders
                /\ EventRowCount(webhookEvents', wh[w].event.id) = 1]_vars

\* A second completed event, with its own id, was processed for an order already
\* PAID by the first: both events are recorded, the first alone wrote the order.
C22_Witness ==
    \E w \in WebhookSlots :
       /\ wh[w].pc = "done" /\ wh[w].status = 200 /\ wh[w].outcome = "alreadyPaid"
       /\ wh[w].event.id[3] = 2
       /\ EventRowCount(webhookEvents, wh[w].event.id) = 1
       /\ CopiesIn(wh[w].event.id, applied) = 0
       /\ CopiesIn(EventId("checkout.session.completed", wh[w].event.session, 1), applied) = 1
       /\ orders[OrderOfSession(wh[w].event.session)].status = "PAID"

\* C23: a transaction that found no order for the event's session commits the
\* event's row and no order write; and a delivery that finds its event's row in
\* the table ends at once, answered 200, with no write at all, whether or not an
\* order holds the session by then.
C23_UnmatchedEventAbsorbed ==
    [][\A w \in WebhookSlots :
          /\ ( /\ wh[w].pc = "commit" /\ wh'[w].pc = "done" /\ wh'[w].status = 200
               /\ wh[w].outcome = "notFound" )
             => /\ orders' = orders
                /\ EventRowCount(webhookEvents', wh[w].event.id) = 1
          /\ ( /\ wh[w].pc = "findEvent" /\ wh'[w].pc # "findEvent" /\ ~wh'[w].fault
               /\ EventRowCount(webhookEvents, wh[w].event.id) > 0 )
             => /\ wh'[w].pc = "done" /\ wh'[w].status = 200
                /\ orders' = orders /\ webhookEvents' = webhookEvents]_vars

\* An event recorded while no order held its session was delivered again after
\* an order came to hold the session: answered as a duplicate, the order is as
\* the checkout left it.
C23_Witness ==
    \E w \in WebhookSlots :
       /\ wh[w].pc = "done" /\ wh[w].status = 200 /\ wh[w].outcome = "duplicate"
       /\ CopiesIn(wh[w].event.id, applied) = 0
       /\ EventRowCount(webhookEvents, wh[w].event.id) = 1
       /\ OrderOfSession(wh[w].event.session) # Null
       /\ orders[OrderOfSession(wh[w].event.session)].status = "PROCESSING"
       /\ orders[OrderOfSession(wh[w].event.session)].paidAt = Null

\* C24: no step of a delivery of a payment_failed event changes an Order row,
\* and a verified one is answered 200 in the step that receives it.
C24_PaymentFailedChangesNothing ==
    [][\A w \in WebhookSlots :
          ( /\ wh'[w] # wh[w]
            /\ \/ wh[w].event.type = "payment_intent.payment_failed" /\ wh[w].pc # "done"
               \/ wh'[w].event.type = "payment_intent.payment_failed" )
          => /\ orders' = orders
             /\ wh'[w].authentic => wh'[w].pc = "done" /\ wh'[w].status = 200]_vars

\* A verified payment_failed event was answered 200 while an order is in
\* PROCESSING, and the order is as it was.
C24_Witness ==
    \E w \in WebhookSlots :
       /\ wh[w].pc = "done" /\ wh[w].status = 200 /\ wh[w].authentic
       /\ wh[w].event.type = "payment_intent.payment_failed"
       /\ orders = SeedOrders

\* C25: a verified event of an unknown type that was answered 200 has its row in
\* the WebhookEvent table.
C25_UnknownTypeRecorded ==
    \A w \in WebhookSlots :
       ( /\ wh[w].pc = "done" /\ wh[w].status = 200 /\ wh[w].authentic
         /\ wh[w].event.type = "payment_intent.succeeded" )
       => EventRowCount(webhookEvents, wh[w].event.id) >= 1

\* C26: the WebhookEvent table only grows, by steps of webhook deliveries and
\* never by a step of a checkout request: no row is removed or changed.
C26_EventsAppendOnly ==
    [][/\ webhookEvents \sqsubseteq webhookEvents'
       /\ webhookEvents' # webhookEvents => wh' # wh /\ co' = co]_vars

\* Two events are recorded, and a delivery that failed and was rolled back has
\* removed neither.
C26_Witness ==
    /\ BagCardinality(webhookEvents) = 2
    /\ \E r1, r2 \in BagToSet(webhookEvents) : r1.type # r2.type
    /\ \E w \in WebhookSlots : wh[w].pc = "done" /\ wh[w].fault /\ wh[w].status = 500

\* C27: a request uses the client's key when the client sent one, and a lookup
\* by the key gives an order of that key; a request without one uses a key that
\* no order and no other request holds, finds no order, and inserts a new row.
C27_KeyPassedOrFresh ==
    /\ [](\A c \in CheckoutSlots :
            /\ co[c].clientKey # NoKey => co[c].key = co[c].clientKey
            /\ co[c].order # Null => orders[co[c].order].idempotencyKey = co[c].key
            /\ (co[c].clientKey = NoKey /\ co[c].pc \in {"lookup", "findOrder", "insert"})
                  => RowsWithKey(orders, co[c].key) = {})
    /\ [][\A c \in CheckoutSlots :
            /\ (co[c].pc \in {"idle", "done"} /\ co'[c].pc = "lookup" /\ co'[c].clientKey = NoKey)
                  => /\ co'[c].key # NoKey
                     /\ RowsWithKey(orders, co'[c].key) = {}
                     /\ \A c2 \in CheckoutSlots \ {c} : co[c2].key # co'[c].key
            /\ (co[c].pc = "insert" /\ co'[c].pc # "insert" /\ co[c].clientKey = NoKey /\ ~co'[c].fault)
                  => /\ Len(orders') = Len(orders) + 1
                     /\ orders'[Len(orders')].idempotencyKey = co[c].key
                     /\ co'[c].order = Len(orders')]_vars

\* Next to the order of key_A, a request without a client key has created its
\* own order under a generated key and was answered with it.
C27_Witness ==
    \E c \in CheckoutSlots :
       /\ co[c].pc = "done" /\ co[c].resp.success
       /\ co[c].clientKey = NoKey /\ co[c].key = "uuid_1"
       /\ Len(orders) = 2 /\ orders[1].idempotencyKey = "key_A"
       /\ co[c].resp.orderId = 2 /\ orders[2].idempotencyKey = "uuid_1"

\* C28: a request that stores a session on an order that already had one (the
\* old session gave no url) adds no Order row, answers with that order's id, and
\* the url it answers with is the url of a session that is open.
C28_ReplacementSessionUsable ==
    [][\A c \in CheckoutSlots :
          ( /\ co[c].pc = "update" /\ co'[c].pc = "done" /\ co'[c].resp.success
            /\ orders[co[c].order].stripeCheckoutId # Null )
          => /\ Len(orders') = Len(orders)
             /\ co'[c].resp.orderId = co[c].order
             /\ co'[c].resp.sessionUrl # Null
             /\ sessions'[co'[c].resp.sessionUrl].open]_vars

\* C29: no step removes an Order row or changes the amount, currency, items or
\* idempotencyKey of one; a row's id is its place in the table.
C29_OrderSnapshotImmutable ==
    [][/\ Len(orders') >= Len(orders)
       /\ \A o \in 1..Len(orders) :
            /\ orders'[o].amount = orders[o].amount
            /\ orders'[o].currency = orders[o].currency
            /\ orders'[o].items = orders[o].items
            /\ orders'[o].idempotencyKey = orders[o].idempotencyKey]_vars

\* An order created by a request, given its session and then paid by a completed
\* event still has its key, items, amount and currency.
C29_Witness ==
    \E o \in 1..Len(orders) :
       /\ orders[o].idempotencyKey = "uuid_1" /\ orders[o].status = "PAID"
       /\ orders[o].items = <<Item("p2", 300, 1)>>
       /\ orders[o].amount = 300 /\ orders[o].currency = "usd"

\* C30: two deliveries that ended on different ones of the three outcomes (newly
\* applied, already processed, order not found) got different results from the
\* order service.
C30_OutcomesDistinguishable ==
    \A w1, w2 \in WebhookSlots :
       ( /\ wh[w1].pc = "done" /\ wh[w2].pc = "done"
         /\ wh[w1].outcome \in {"applied", "duplicate", "notFound"}
         /\ wh[w2].outcome \in {"applied", "duplicate", "notFound"}
         /\ wh[w1].outcome # wh[w2].outcome )
       => wh[w1].returned # wh[w2].returned

\* C31: in every state an order is PENDING exactly when its stripeCheckoutId is
\* null, and an order in PROCESSING has a stripeCheckoutId.
C31_StatusAndSessionTogether ==
    \A o \in 1..Len(orders) :
       /\ (orders[o].status = "PENDING") <=> (orders[o].stripeCheckoutId = Null)
       /\ (orders[o].status = "PROCESSING") => (orders[o].stripeCheckoutId # Null)

\* A request has just stored its session on its order, now in PROCESSING, while
\* the order of another request is still PENDING without a session.
C31_Witness ==
    \E c \in CheckoutSlots, o1, o2 \in 1..Len(orders) :
       /\ co[c].pc = "done" /\ co[c].resp.success /\ co[c].resp.orderId = o1
       /\ orders[o1].status = "PROCESSING" /\ orders[o1].stripeCheckoutId # Null
       /\ orders[o2].status = "PENDING" /\ orders[o2].stripeCheckoutId = Null

\* C32: in every state the amount of an order that holds a session equals the
\* sum of price times quantity over the line items the session was created from.
C32_AmountMatchesSessionItems ==
    \A o \in 1..Len(orders) :
       orders[o].stripeCheckoutId # Null =>
          orders[o].amount = SumOfLines(sessions[orders[o].stripeCheckoutId].items,
                                        Len(sessions[orders[o].stripeCheckoutId].items))

\* What one event, processed alone at time t, makes of the row of its order:
\* markOrderAsPaid returns a PAID row as it is and otherwise writes the status
\* and the payment data; markOrderAsFailed writes the status.
SerialEffect(row, event, t) ==
    IF event.type = "checkout.session.completed"
    THEN IF row.status = "PAID" THEN row
         ELSE [row EXCEPT !.status = "PAID",
                          !.stripePaymentId = PaymentIntent(event.session),
                          !.customerEmail = CustomerEmail(event.session),
                          !.paidAt = t]
    ELSE [row EXCEPT !.status = "FAILED"]

\* The rows two events leave when one is processed wholly before the other.
SerialResults(row, e1, e2) ==
    { SerialEffect(SerialEffect(row, e1, t1), e2, t2) : t1 \in 1..clock, t2 \in 1..clock }
    \cup { SerialEffect(SerialEffect(row, e2, t1), e1, t2) : t1 \in 1..clock, t2 \in 1..clock }

\* C33: when two verified events with different ids for the session of the seeded
\* order (a completed one and a completed or expired one) have both committed,
\* and no other event wrote the order and no checkout ran, the order row is one
\* that processing the two one after the other leaves, and each event has its row.
C33_ConcurrentEqualsSerial ==
    \A w1, w2 \in WebhookSlots :
       ( /\ w1 # w2
         /\ wh[w1].pc = "done" /\ wh[w2].pc = "done"
         /\ wh[w1].status = 200 /\ wh[w2].status = 200
         /\ wh[w1].outcome \in {"applied", "alreadyPaid"}
         /\ wh[w2].outcome \in {"applied", "alreadyPaid"}
         /\ wh[w1].event.id # wh[w2].event.id
         /\ wh[w1].event.session = 1 /\ wh[w2].event.session = 1
         /\ wh[w1].event.type = "checkout.session.completed"
         /\ wh[w2].event.type \in SessionEventTypes
         /\ \A c \in CheckoutSlots : co[c].pc = "idle"
         /\ orders # << >> /\ orders[1].stripeCheckoutId = 1
         /\ BagToSet(applied) \subseteq {wh[w1].event.id, wh[w2].event.id} )
       => /\ orders[1] \in SerialResults(SeedOrders[1], wh[w1].event, wh[w2].event)
          /\ EventRowCount(webhookEvents, wh[w1].event.id) = 1
          /\ EventRowCount(webhookEvents, wh[w2].event.id) = 1

\* Two completed events with different ids overlapped: both transactions read the
\* order before either committed, and both wrote it.
C33_Witness ==
    \E w1, w2 \in WebhookSlots :
       /\ w1 # w2 /\ wh[w1].pc = "done" /\ wh[w2].pc = "done"
       /\ wh[w1].outcome = "applied" /\ wh[w2].outcome = "applied"
       /\ wh[w1].event.type = "checkout.session.completed"
       /\ wh[w2].event.type = "checkout.session.completed"
       /\ wh[w1].event.id # wh[w2].event.id
       /\ \A c \in CheckoutSlots : co[c].pc = "idle"
       /\ orders[1].status = "PAID" /\ orders[1].paidAt = 2

\* C34: a step of a webhook request that changes an Order row belongs to a
\* completed or expired event, and the row it changes is the one whose
\* stripeCheckoutId is the event's session; no row is added or removed.
C34_OnlyMatchingOrderChanged ==
    [][WebhookStep =>
         /\ Len(orders') = Len(orders)
         /\ \A o \in 1..Len(orders) :
              orders'[o] # orders[o] =>
                 \E w \in WebhookSlots :
                    /\ wh'[w] # wh[w]
                    /\ wh[w].event.type \in SessionEventTypes
                    /\ wh[w].event.session # Null
                    /\ orders[o].stripeCheckoutId = wh[w].event.session]_vars

\* A completed event for session 1 has made order 1 PAID while another order,
\* holding another session, is still in PROCESSING.
C34_Witness ==
    \E w \in WebhookSlots, o \in 1..Len(orders) :
       /\ wh[w].pc = "done" /\ wh[w].outcome = "applied" /\ wh[w].event.session = 1
       /\ wh[w].event.type = "checkout.session.completed"
       /\ orders[1].stripeCheckoutId = 1 /\ orders[1].status = "PAID"
       /\ o # 1 /\ orders[o].status = "PROCESSING"
       /\ orders[o].stripeCheckoutId \notin {Null, 1}

\* C35: when the provider holds a session for a key, created for an order and
\* from items, and the order has no session id, a request with that key and
\* those items whose provider call and last update do not throw gets that same
\* session from the provider, stores it on the order with status PROCESSING and
\* answers success; no key ever has two provider sessions.
C35_RetryAdoptsSession ==
    /\ [](\A c \in CheckoutSlots : Cardinality(SessionsWithKey(co[c].key)) <= 1)
    /\ [][\A c \in CheckoutSlots :
            /\ \A s \in SessionsWithKey(co[c].key) :
                 ( /\ co[c].pc = "stripe" /\ co'[c].pc # "stripe" /\ ~co'[c].fault
                   /\ sessions[s].orderRef = co[c].order /\ sessions[s].items = co[c].items
                   /\ orders[co[c].order].stripeCheckoutId = Null )
                 => /\ co'[c].pc = "update" /\ co'[c].result.sessionId = s
                    /\ sessions' = sessions
            /\ ( co[c].pc = "update" /\ co'[c].pc = "done" /\ ~co'[c].fault )
               => /\ co'[c].resp.success /\ co'[c].resp.orderId = co[c].order
                  /\ orders'[co[c].order].status = "PROCESSING"
                  /\ orders'[co[c].order].stripeCheckoutId = co[c].result.sessionId]_vars

\* The database held the PENDING order of key_A without a session id while the
\* provider held session 1 for it; the one request made since, with key_A and the
\* same items, has ended in success: the order is in PROCESSING with session 1,
\* the only session.
C35_Witness ==
    \E c \in CheckoutSlots :
       /\ used.requests = 1 /\ used.faults = 0
       /\ EventRowCount(webhookEvents, EventId("checkout.session.completed", 1, 1)) = 1
       /\ co[c].pc = "done" /\ co[c].key = "key_A" /\ co[c].items = SeedItems
       /\ co[c].resp.success /\ co[c].resp.orderId = 1
       /\ orders[1].status = "PROCESSING" /\ orders[1].stripeCheckoutId = 1
       /\ Len(sessions) = 1

\* C37: a request whose provider call threw an error with the code
\* idempotency_key_in_use, of whichever class, got the class
\* StripeIdempotencyError from the classifier.
C37_IdempotencyCodeClassified ==
    \A c \in CheckoutSlots :
       co[c].error.code = "idempotency_key_in_use"
          => co[c].result.errorType = "StripeIdempotencyError"

\* C36: every request answered with success got a sessionUrl and the id of an
\* order whose stripeCheckoutId is the session of that url.
C36_SuccessCarriesUrlAndOrder ==
    \A c \in CheckoutSlots :
       ( co[c].pc = "done" /\ co[c].resp.success )
       => /\ co[c].resp.sessionUrl # Null
          /\ co[c].resp.orderId \in 1..Len(orders)
          /\ orders[co[c].resp.orderId].stripeCheckoutId = co[c].resp.sessionUrl

====
